---- MODULE Spec2Model ----
(***************************************************************************)
(* Model of the streaming JSON writer of package enc (JSONWriter).         *)
(*                                                                         *)
(* The writer is a record of its three fields plus the content of the sink *)
(* it writes to; every method of the source is an operator from a writer   *)
(* record to a writer record.  A Go panic aborts the running call chain:   *)
(* the record keeps everything done before the panic and carries the kind  *)
(* of panic in the field "panic".                                          *)
(*                                                                         *)
(* The int64 field "structure" packs one 2-bit frame per nesting level.    *)
(* It is modelled as the sequence of its base-4 digits, most significant   *)
(* first (so the last element is structure&3).  Frames pushed by begin are *)
(* never 0, so the digit sequence has no leading zero and is canonical.    *)
(*                                                                         *)
(* The sink content is the sequence of fragments handed to io.WriteString, *)
(* each fragment a sequence of one-character strings.                      *)
(***************************************************************************)
EXTENDS Integers, Sequences, FiniteSets, TLC

VARIABLES trailingseparator, structure, depth, buffer,  \* the writer and its sink
          lastOp, lastItem,   \* the last public call and the item handed to it
          panic,              \* the panic the last call ended with, or NoPanic
          pre,                \* the writer as it was before the last call
          wellformed,         \* no call since construction has panicked
          calls, limit,       \* number of calls made, and explored at most
          room,               \* fragments the sink still accepts, Unlimited if
                              \* it never fails
          sinkerror,          \* the sink rejected a write of the last call
          xml,                \* the XMLWriter and its sink
          xmlOp,              \* the last call made on the XMLWriter
          xmlOpen,            \* names given to BeginTag and not yet closed
          xmlPre              \* xml and xmlOpen before the last call

vars == <<trailingseparator, structure, depth, buffer,
          lastOp, lastItem, panic, pre, wellformed, calls, limit,
          room, sinkerror, xml, xmlOp, xmlOpen, xmlPre>>

jsonvars == <<trailingseparator, structure, depth, buffer,
              lastOp, lastItem, panic, pre, wellformed, limit,
              room, sinkerror>>

xmlvars == <<xml, xmlOp, xmlOpen, xmlPre>>

(***************************************************************************)
(* Bounds of the exploration.                                              *)
(***************************************************************************)
\* calls explored on a writer that starts empty
MaxCalls == 5

\* calls explored on a writer that starts deeply nested
MaxDeepCalls == 3

\* the deeply nested writers start at most this far below the depth limit
DeepSlack == 2

\* a writer closed too often starts after at most this many EndArray calls
MaxEnds == 4

\* calls explored on a writer that was closed too often
MaxEndedCalls == 4

\* calls explored on an XMLWriter
MaxXMLCalls == 4

\* a failing sink accepts at most this many fragments before it fails
MaxRoom == 2

\* calls explored on a writer whose sink fails
MaxSinkCalls == 3

(***************************************************************************)
(* JSONState and the compatibility matrix.                                 *)
(***************************************************************************)
JSONStateNone == 0

JSONStateObject == 1

JSONStateArray == 2

JSONStateKey == 3

\* the matrix with a key also allowed right after a key
jsoncompatibility_KeyAfterKey ==
    << TRUE,  TRUE,  TRUE,  FALSE,
       FALSE, FALSE, FALSE, TRUE,
       TRUE,  TRUE,  TRUE,  FALSE,
       TRUE,  TRUE,  TRUE,  TRUE >>

jsoncompatibility ==
    << TRUE,  TRUE,  TRUE,  FALSE,
       FALSE, FALSE, FALSE, TRUE,
       TRUE,  TRUE,  TRUE,  FALSE,
       TRUE,  TRUE,  TRUE,  FALSE >>

\* depth >= 31 in begin
MaxDepth == 31

\* the value end() stores in depth when depth reaches 0
ClosedDepth == -1

\* number of 2-bit frames an int64 holds
StructureDigits == 32

(***************************************************************************)
(* int64 arithmetic on the packed stack.                                   *)
(***************************************************************************)
\* structure & 3
And3(s) == IF s = <<>> THEN 0 ELSE s[Len(s)]

\* (structure << 2) | jsontype ; bits shifted beyond 64 are lost
Shl2Or(s, jsontype) ==
    LET t == IF s = <<>> /\ jsontype = 0 THEN <<>> ELSE Append(s, jsontype)
    IN  IF Len(t) > StructureDigits THEN Tail(t) ELSE t

\* structure >> 2 ; the shift is arithmetic: a negative structure, one whose
\* top bit (bit 63) is set, gets ones in its two top bits
Shr2(s) ==
    IF s = <<>> THEN <<>>
    ELSE IF Len(s) = StructureDigits /\ s[1] >= 2
         THEN <<3>> \o SubSeq(s, 1, Len(s) - 1)
         ELSE SubSeq(s, 1, Len(s) - 1)

(***************************************************************************)
(* The writer record.                                                      *)
(***************************************************************************)
NoPanic == "none"

\* room of a sink that accepts every write, such as a bytes.Buffer
Unlimited == -1

\* NewJSONWriter(&buffer); the fields room and rejected belong to the sink:
\* how many fragments it still accepts, and whether it returned an error
NewJSONWriter ==
    [ trailingseparator |-> FALSE,
      structure         |-> <<>>,
      depth             |-> 0,
      buffer            |-> <<>>,
      panic             |-> NoPanic,
      room              |-> Unlimited,
      rejected          |-> FALSE ]

Panicked(w) == w.panic # NoPanic

Raise(w, what) == [w EXCEPT !.panic = what]

\* io.WriteString(writer.writer, fragment); the error it returns is dropped
\* at every call site
WriteString(w, fragment) ==
    IF w.room = 0
    THEN [w EXCEPT !.rejected = TRUE]
    ELSE [w EXCEPT !.buffer = Append(@, fragment),
                   !.room = IF @ > 0 THEN @ - 1 ELSE @]

(***************************************************************************)
(* begin / end                                                             *)
(***************************************************************************)
\* begin writing the pending separator before its three tests
begin_SeparatorFirst(w, jsontype) ==
    LET w0 == IF w.trailingseparator
              THEN [WriteString(w, <<",">>) EXCEPT !.trailingseparator = FALSE]
              ELSE w
    IN  IF ~jsoncompatibility[And3(w0.structure) * 4 + jsontype + 1]
        THEN Raise(w0, "incompatible")
        ELSE IF w0.depth = -1
        THEN Raise(w0, "closed")
        ELSE IF w0.depth >= MaxDepth
        THEN Raise(w0, "depth")
        ELSE IF jsontype # JSONStateNone
        THEN [w0 EXCEPT !.structure = Shl2Or(@, jsontype), !.depth = @ + 1]
        ELSE w0

\* begin with the depth test off by one (depth > 31)
begin_DepthOffByOne(w, jsontype) ==
    IF ~jsoncompatibility[And3(w.structure) * 4 + jsontype + 1]
    THEN Raise(w, "incompatible")
    ELSE IF w.depth = -1
    THEN Raise(w, "closed")
    ELSE IF w.depth > MaxDepth
    THEN Raise(w, "depth")
    ELSE LET w1 == IF jsontype # JSONStateNone
                   THEN [w EXCEPT !.structure = Shl2Or(@, jsontype),
                                  !.depth = @ + 1]
                   ELSE w
         IN  IF w1.trailingseparator
             THEN [WriteString(w1, <<",">>) EXCEPT !.trailingseparator = FALSE]
             ELSE w1

begin(w, jsontype) ==
    IF ~jsoncompatibility[And3(w.structure) * 4 + jsontype + 1]
    THEN Raise(w, "incompatible")
    ELSE IF w.depth = -1
    THEN Raise(w, "closed")
    ELSE IF w.depth >= MaxDepth
    THEN Raise(w, "depth")
    ELSE LET w1 == IF jsontype # JSONStateNone
                   THEN [w EXCEPT !.structure = Shl2Or(@, jsontype),
                                  !.depth = @ + 1]
                   ELSE w
         IN  IF w1.trailingseparator
             THEN [WriteString(w1, <<",">>) EXCEPT !.trailingseparator = FALSE]
             ELSE w1

end(w) ==
    LET w1 == [w EXCEPT !.structure = Shr2(@), !.depth = @ - 1]
        w2 == IF w1.depth > 0 /\ And3(w1.structure) = JSONStateKey
              THEN [w1 EXCEPT !.structure = Shr2(@), !.depth = @ - 1]
              ELSE w1
    IN  IF w2.depth = 0 THEN [w2 EXCEPT !.depth = ClosedDepth] ELSE w2

(***************************************************************************)
(* Strings.  A Go string is modelled as the sequence of the units that a   *)
(* range loop over it walks: a rune, or a byte that is not part of a valid *)
(* UTF-8 encoding.  A unit is written as a TLA+ string:                    *)
(*   - a rune U+0001..U+007F as the one-character string holding it,       *)
(*     except the grave accent, which no TLA+ string holds: "U+0060",      *)
(*   - any other rune as U+ and its hexadecimal digits, four of them or  *)
(*     as many as the rune needs: "U+0000", "U+00FC", "U+10400",           *)
(*   - an invalid byte as 0x and its two hexadecimal digits: "0x9C".       *)
(***************************************************************************)
\* ASCII[c] is the unit of the rune with code c
ASCII ==
    << "", "", "", "", "", "", "", "", "\t", "\n", "", "\f",
       "\r", "", "", "", "", "", "", "", "", "", "", "",
       "", "", "", "", "", "", "", " ", "!", "\"", "#", "$",
       "%", "&", "'", "(", ")", "*", "+", ",", "-", ".", "/", "0",
       "1", "2", "3", "4", "5", "6", "7", "8", "9", ":", ";", "<",
       "=", ">", "?", "@", "A", "B", "C", "D", "E", "F", "G", "H",
       "I", "J", "K", "L", "M", "N", "O", "P", "Q", "R", "S", "T",
       "U", "V", "W", "X", "Y", "Z", "[", "\\", "]", "^", "_", "U+0060",
       "a", "b", "c", "d", "e", "f", "g", "h", "i", "j", "k", "l",
       "m", "n", "o", "p", "q", "r", "s", "t", "u", "v", "w", "x",
       "y", "z", "{", "|", "}", "~", "" >>

HexDigits ==
    <<"0","1","2","3","4","5","6","7","8","9","A","B","C","D","E","F">>

Hex2(n) == HexDigits[(n \div 16) + 1] \o HexDigits[(n % 16) + 1]

Hex4(n) == Hex2(n \div 256) \o Hex2(n % 256)

\* utf8.RuneSelf: the runes below it are one byte long
RuneSelf == 128

\* unicode.MaxRune, the largest rune: U+10FFFF
MaxRune == 1114111

\* utf8.RuneError: the rune range yields for an invalid byte
RuneError == 65533

\* the unit of a rune
RuneName(r) ==
    IF r >= 1 /\ r < RuneSelf THEN ASCII[r]
    ELSE IF r < 65536 THEN "U+" \o Hex4(r)
    ELSE IF r < 1048576
         THEN "U+" \o HexDigits[(r \div 65536) + 1] \o Hex4(r % 65536)
         ELSE "U+" \o Hex2(r \div 65536) \o Hex4(r % 65536)

\* the unit of an invalid byte
ByteName(b) == "0x" \o Hex2(b)

\* the code of the rune of a unit of ASCII
ASCIICode ==
    [unit \in {ASCII[c] : c \in 1..Len(ASCII)} |->
        CHOOSE c \in 1..Len(ASCII) : ASCII[c] = unit]

\* the value of a hexadecimal digit
HexValue(digit) == (CHOOSE i \in 1..Len(HexDigits) : HexDigits[i] = digit) - 1

\* the number that the hexadecimal digits from position from to position to
\* of a unit denote
RECURSIVE HexNumber(_, _, _)
HexNumber(unit, from, to) ==
    IF to < from THEN 0
    ELSE 16 * HexNumber(unit, from, to - 1) + HexValue(SubSeq(unit, to, to))

\* the unit is that of an invalid byte
IsInvalidByte(unit) == Len(unit) = 4 /\ SubSeq(unit, 1, 2) = "0x"

\* the rune range yields for a unit: the rune itself, RuneError for an
\* invalid byte
CodePoint(unit) ==
    IF Len(unit) = 1 THEN ASCIICode[unit]
    ELSE IF IsInvalidByte(unit) THEN RuneError
    ELSE HexNumber(unit, 3, Len(unit))

\* the bytes after the first one in the UTF-8 encoding of a rune
TrailingBytes(r) ==
    IF r < RuneSelf THEN <<>>
    ELSE IF r < 2048 THEN << 128 + (r % 64) >>
    ELSE IF r < 65536
         THEN << 128 + ((r \div 64) % 64), 128 + (r % 64) >>
         ELSE << 128 + ((r \div 4096) % 64), 128 + ((r \div 64) % 64),
                 128 + (r % 64) >>

\* s[1:] of a string that is not empty: the string without its first byte
DropFirstByte(s) ==
    LET first == Head(s)
        trailing == IF IsInvalidByte(first) THEN <<>>
                    ELSE TrailingBytes(CodePoint(first))
    IN  [i \in 1..Len(trailing) |-> ByteName(trailing[i])] \o Tail(s)

\* unicode.Lower, the runes of category Ll (Unicode 15.0, the tables of
\* Go 1.21 and later), as
\* ranges <<lo, hi, stride>>
LowerRanges ==
    << <<97, 122, 1>>, <<181, 181, 1>>, <<223, 246, 1>>, <<248, 255, 1>>,
       <<257, 311, 2>>, <<312, 328, 2>>, <<329, 375, 2>>, <<378, 382, 2>>,
       <<383, 384, 1>>, <<387, 389, 2>>, <<392, 392, 1>>, <<396, 397, 1>>,
       <<402, 402, 1>>, <<405, 405, 1>>, <<409, 411, 1>>, <<414, 414, 1>>,
       <<417, 421, 2>>, <<424, 424, 1>>, <<426, 427, 1>>, <<429, 429, 1>>,
       <<432, 432, 1>>, <<436, 438, 2>>, <<441, 442, 1>>, <<445, 447, 1>>,
       <<454, 454, 1>>, <<457, 457, 1>>, <<460, 476, 2>>, <<477, 495, 2>>,
       <<496, 496, 1>>, <<499, 501, 2>>, <<505, 563, 2>>, <<564, 569, 1>>,
       <<572, 572, 1>>, <<575, 576, 1>>, <<578, 578, 1>>, <<583, 591, 2>>,
       <<592, 659, 1>>, <<661, 687, 1>>, <<881, 883, 2>>, <<887, 887, 1>>,
       <<891, 893, 1>>, <<912, 912, 1>>, <<940, 974, 1>>, <<976, 977, 1>>,
       <<981, 983, 1>>, <<985, 1007, 2>>, <<1008, 1011, 1>>,
       <<1013, 1013, 1>>, <<1016, 1016, 1>>, <<1019, 1020, 1>>,
       <<1072, 1119, 1>>, <<1121, 1153, 2>>, <<1163, 1215, 2>>,
       <<1218, 1230, 2>>, <<1231, 1327, 2>>, <<1376, 1416, 1>>,
       <<4304, 4346, 1>>, <<4349, 4351, 1>>, <<5112, 5117, 1>>,
       <<7296, 7304, 1>>, <<7424, 7467, 1>>, <<7531, 7543, 1>>,
       <<7545, 7578, 1>>, <<7681, 7829, 2>>, <<7830, 7837, 1>>,
       <<7839, 7935, 2>>, <<7936, 7943, 1>>, <<7952, 7957, 1>>,
       <<7968, 7975, 1>>, <<7984, 7991, 1>>, <<8000, 8005, 1>>,
       <<8016, 8023, 1>>, <<8032, 8039, 1>>, <<8048, 8061, 1>>,
       <<8064, 8071, 1>>, <<8080, 8087, 1>>, <<8096, 8103, 1>>,
       <<8112, 8116, 1>>, <<8118, 8119, 1>>, <<8126, 8126, 1>>,
       <<8130, 8132, 1>>, <<8134, 8135, 1>>, <<8144, 8147, 1>>,
       <<8150, 8151, 1>>, <<8160, 8167, 1>>, <<8178, 8180, 1>>,
       <<8182, 8183, 1>>, <<8458, 8458, 1>>, <<8462, 8463, 1>>,
       <<8467, 8467, 1>>, <<8495, 8495, 1>>, <<8500, 8500, 1>>,
       <<8505, 8505, 1>>, <<8508, 8509, 1>>, <<8518, 8521, 1>>,
       <<8526, 8526, 1>>, <<8580, 8580, 1>>, <<11312, 11359, 1>>,
       <<11361, 11361, 1>>, <<11365, 11366, 1>>, <<11368, 11372, 2>>,
       <<11377, 11377, 1>>, <<11379, 11380, 1>>, <<11382, 11387, 1>>,
       <<11393, 11491, 2>>, <<11492, 11492, 1>>, <<11500, 11502, 2>>,
       <<11507, 11507, 1>>, <<11520, 11557, 1>>, <<11559, 11559, 1>>,
       <<11565, 11565, 1>>, <<42561, 42605, 2>>, <<42625, 42651, 2>>,
       <<42787, 42799, 2>>, <<42800, 42801, 1>>, <<42803, 42865, 2>>,
       <<42866, 42872, 1>>, <<42874, 42876, 2>>, <<42879, 42887, 2>>,
       <<42892, 42894, 2>>, <<42897, 42897, 1>>, <<42899, 42901, 1>>,
       <<42903, 42921, 2>>, <<42927, 42927, 1>>, <<42933, 42947, 2>>,
       <<42952, 42954, 2>>, <<42961, 42969, 2>>, <<42998, 42998, 1>>,
       <<43002, 43002, 1>>, <<43824, 43866, 1>>, <<43872, 43880, 1>>,
       <<43888, 43967, 1>>, <<64256, 64262, 1>>, <<64275, 64279, 1>>,
       <<65345, 65370, 1>>, <<66600, 66639, 1>>, <<66776, 66811, 1>>,
       <<66967, 66977, 1>>, <<66979, 66993, 1>>, <<66995, 67001, 1>>,
       <<67003, 67004, 1>>, <<68800, 68850, 1>>, <<71872, 71903, 1>>,
       <<93792, 93823, 1>>, <<119834, 119859, 1>>, <<119886, 119892, 1>>,
       <<119894, 119911, 1>>, <<119938, 119963, 1>>, <<119990, 119993, 1>>,
       <<119995, 119995, 1>>, <<119997, 120003, 1>>, <<120005, 120015, 1>>,
       <<120042, 120067, 1>>, <<120094, 120119, 1>>, <<120146, 120171, 1>>,
       <<120198, 120223, 1>>, <<120250, 120275, 1>>, <<120302, 120327, 1>>,
       <<120354, 120379, 1>>, <<120406, 120431, 1>>, <<120458, 120485, 1>>,
       <<120514, 120538, 1>>, <<120540, 120545, 1>>, <<120572, 120596, 1>>,
       <<120598, 120603, 1>>, <<120630, 120654, 1>>, <<120656, 120661, 1>>,
       <<120688, 120712, 1>>, <<120714, 120719, 1>>, <<120746, 120770, 1>>,
       <<120772, 120777, 1>>, <<120779, 120779, 1>>, <<122624, 122633, 1>>,
       <<122635, 122654, 1>>, <<122661, 122666, 1>>, <<125218, 125251, 1>> >>

\* the lower-case mappings of unicode.CaseRanges (Unicode 15.0),
\* as ranges <<lo, hi, stride, delta>>: a rune of the range maps to
\* itself plus delta
ToLowerRanges ==
    << <<65, 90, 1, 32>>, <<192, 214, 1, 32>>, <<216, 222, 1, 32>>,
       <<256, 302, 2, 1>>, <<304, 304, 1, -199>>, <<306, 310, 2, 1>>,
       <<313, 327, 2, 1>>, <<330, 374, 2, 1>>, <<376, 376, 1, -121>>,
       <<377, 381, 2, 1>>, <<385, 385, 1, 210>>, <<386, 388, 2, 1>>,
       <<390, 390, 1, 206>>, <<391, 391, 1, 1>>, <<393, 394, 1, 205>>,
       <<395, 395, 1, 1>>, <<398, 398, 1, 79>>, <<399, 399, 1, 202>>,
       <<400, 400, 1, 203>>, <<401, 401, 1, 1>>, <<403, 403, 1, 205>>,
       <<404, 404, 1, 207>>, <<406, 406, 1, 211>>, <<407, 407, 1, 209>>,
       <<408, 408, 1, 1>>, <<412, 412, 1, 211>>, <<413, 413, 1, 213>>,
       <<415, 415, 1, 214>>, <<416, 420, 2, 1>>, <<422, 422, 1, 218>>,
       <<423, 423, 1, 1>>, <<425, 425, 1, 218>>, <<428, 428, 1, 1>>,
       <<430, 430, 1, 218>>, <<431, 431, 1, 1>>, <<433, 434, 1, 217>>,
       <<435, 437, 2, 1>>, <<439, 439, 1, 219>>, <<440, 440, 1, 1>>,
       <<444, 444, 1, 1>>, <<452, 452, 1, 2>>, <<453, 453, 1, 1>>,
       <<455, 455, 1, 2>>, <<456, 456, 1, 1>>, <<458, 458, 1, 2>>,
       <<459, 475, 2, 1>>, <<478, 494, 2, 1>>, <<497, 497, 1, 2>>,
       <<498, 500, 2, 1>>, <<502, 502, 1, -97>>, <<503, 503, 1, -56>>,
       <<504, 542, 2, 1>>, <<544, 544, 1, -130>>, <<546, 562, 2, 1>>,
       <<570, 570, 1, 10795>>, <<571, 571, 1, 1>>, <<573, 573, 1, -163>>,
       <<574, 574, 1, 10792>>, <<577, 577, 1, 1>>, <<579, 579, 1, -195>>,
       <<580, 580, 1, 69>>, <<581, 581, 1, 71>>, <<582, 590, 2, 1>>,
       <<880, 882, 2, 1>>, <<886, 886, 1, 1>>, <<895, 895, 1, 116>>,
       <<902, 902, 1, 38>>, <<904, 906, 1, 37>>, <<908, 908, 1, 64>>,
       <<910, 911, 1, 63>>, <<913, 929, 1, 32>>, <<931, 939, 1, 32>>,
       <<975, 975, 1, 8>>, <<984, 1006, 2, 1>>, <<1012, 1012, 1, -60>>,
       <<1015, 1015, 1, 1>>, <<1017, 1017, 1, -7>>, <<1018, 1018, 1, 1>>,
       <<1021, 1023, 1, -130>>, <<1024, 1039, 1, 80>>, <<1040, 1071, 1, 32>>,
       <<1120, 1152, 2, 1>>, <<1162, 1214, 2, 1>>, <<1216, 1216, 1, 15>>,
       <<1217, 1229, 2, 1>>, <<1232, 1326, 2, 1>>, <<1329, 1366, 1, 48>>,
       <<4256, 4293, 1, 7264>>, <<4295, 4295, 1, 7264>>,
       <<4301, 4301, 1, 7264>>, <<5024, 5103, 1, 38864>>,
       <<5104, 5109, 1, 8>>, <<7312, 7354, 1, -3008>>,
       <<7357, 7359, 1, -3008>>, <<7680, 7828, 2, 1>>,
       <<7838, 7838, 1, -7615>>, <<7840, 7934, 2, 1>>, <<7944, 7951, 1, -8>>,
       <<7960, 7965, 1, -8>>, <<7976, 7983, 1, -8>>, <<7992, 7999, 1, -8>>,
       <<8008, 8013, 1, -8>>, <<8025, 8031, 2, -8>>, <<8040, 8047, 1, -8>>,
       <<8072, 8079, 1, -8>>, <<8088, 8095, 1, -8>>, <<8104, 8111, 1, -8>>,
       <<8120, 8121, 1, -8>>, <<8122, 8123, 1, -74>>, <<8124, 8124, 1, -9>>,
       <<8136, 8139, 1, -86>>, <<8140, 8140, 1, -9>>, <<8152, 8153, 1, -8>>,
       <<8154, 8155, 1, -100>>, <<8168, 8169, 1, -8>>,
       <<8170, 8171, 1, -112>>, <<8172, 8172, 1, -7>>,
       <<8184, 8185, 1, -128>>, <<8186, 8187, 1, -126>>,
       <<8188, 8188, 1, -9>>, <<8486, 8486, 1, -7517>>,
       <<8490, 8490, 1, -8383>>, <<8491, 8491, 1, -8262>>,
       <<8498, 8498, 1, 28>>, <<8544, 8559, 1, 16>>, <<8579, 8579, 1, 1>>,
       <<9398, 9423, 1, 26>>, <<11264, 11311, 1, 48>>,
       <<11360, 11360, 1, 1>>, <<11362, 11362, 1, -10743>>,
       <<11363, 11363, 1, -3814>>, <<11364, 11364, 1, -10727>>,
       <<11367, 11371, 2, 1>>, <<11373, 11373, 1, -10780>>,
       <<11374, 11374, 1, -10749>>, <<11375, 11375, 1, -10783>>,
       <<11376, 11376, 1, -10782>>, <<11378, 11378, 1, 1>>,
       <<11381, 11381, 1, 1>>, <<11390, 11391, 1, -10815>>,
       <<11392, 11490, 2, 1>>, <<11499, 11501, 2, 1>>,
       <<11506, 11506, 1, 1>>, <<42560, 42604, 2, 1>>,
       <<42624, 42650, 2, 1>>, <<42786, 42798, 2, 1>>,
       <<42802, 42862, 2, 1>>, <<42873, 42875, 2, 1>>,
       <<42877, 42877, 1, -35332>>, <<42878, 42886, 2, 1>>,
       <<42891, 42891, 1, 1>>, <<42893, 42893, 1, -42280>>,
       <<42896, 42898, 2, 1>>, <<42902, 42920, 2, 1>>,
       <<42922, 42922, 1, -42308>>, <<42923, 42923, 1, -42319>>,
       <<42924, 42924, 1, -42315>>, <<42925, 42925, 1, -42305>>,
       <<42926, 42926, 1, -42308>>, <<42928, 42928, 1, -42258>>,
       <<42929, 42929, 1, -42282>>, <<42930, 42930, 1, -42261>>,
       <<42931, 42931, 1, 928>>, <<42932, 42946, 2, 1>>,
       <<42948, 42948, 1, -48>>, <<42949, 42949, 1, -42307>>,
       <<42950, 42950, 1, -35384>>, <<42951, 42953, 2, 1>>,
       <<42960, 42960, 1, 1>>, <<42966, 42968, 2, 1>>,
       <<42997, 42997, 1, 1>>, <<65313, 65338, 1, 32>>,
       <<66560, 66599, 1, 40>>, <<66736, 66771, 1, 40>>,
       <<66928, 66938, 1, 39>>, <<66940, 66954, 1, 39>>,
       <<66956, 66962, 1, 39>>, <<66964, 66965, 1, 39>>,
       <<68736, 68786, 1, 64>>, <<71840, 71871, 1, 32>>,
       <<93760, 93791, 1, 32>>, <<125184, 125217, 1, 34>> >>

InRange(r, range) ==
    r >= range[1] /\ r <= range[2] /\ ((r - range[1]) % range[3]) = 0

\* unicode.IsLower, of a rune; a rune of ASCII is tested without the table
IsLower(r) ==
    IF r < RuneSelf THEN r \in 97..122
    ELSE \E i \in 1..Len(LowerRanges) : InRange(r, LowerRanges[i])

\* unicode.ToLower, of a rune; a rune of ASCII is mapped without the table
ToLower(r) ==
    IF r < RuneSelf
    THEN IF r \in 65..90 THEN r + 32 ELSE r
    ELSE IF \E i \in 1..Len(ToLowerRanges) : InRange(r, ToLowerRanges[i])
    THEN r + ToLowerRanges[CHOOSE i \in 1..Len(ToLowerRanges) :
                               InRange(r, ToLowerRanges[i])][4]
    ELSE r

(***************************************************************************)
(* escape: quotes the value; backslash and quote get a backslash, a rune   *)
(* below 0x20 becomes \u followed by fmt's %04d of its code.               *)
(***************************************************************************)
DecimalDigits == <<"0","1","2","3","4","5","6","7","8","9">>

\* the first rune that is not a control character: char < 0x20
FirstPlainRune == 32

\* fmt.Sprintf("%04d", char) of a rune below 0x20, <<>> for any other rune
ControlCode(char) ==
    IF char < FirstPlainRune
    THEN << "0", "0", DecimalDigits[(char \div 10) + 1],
                      DecimalDigits[(char % 10) + 1] >>
    ELSE <<>>

\* the body of the loop of escape for the rune char
escapeChar(char) ==
    IF char = 92 THEN <<"\\", "\\">>
    ELSE IF char = 34 THEN <<"\\", "\"">>
    ELSE IF char < FirstPlainRune THEN <<"\\", "u">> \o ControlCode(char)
    ELSE <<RuneName(char)>>

\* for _, char := range value
RECURSIVE escapeRunes(_)
escapeRunes(value) ==
    IF value = <<>> THEN <<>>
    ELSE escapeChar(CodePoint(Head(value))) \o escapeRunes(Tail(value))

escape(value) == <<"\"">> \o escapeRunes(value) \o <<"\"">>

(***************************************************************************)
(* BeginObject / EndObject / BeginArray / EndArray / WriteKey              *)
(***************************************************************************)
BeginObject(w) ==
    LET w1 == begin(w, JSONStateObject)
    IN  IF Panicked(w1) THEN w1 ELSE WriteString(w1, <<"{">>)

EndObject(w) ==
    [WriteString(end(w), <<"}">>) EXCEPT !.trailingseparator = TRUE]

BeginArray(w) ==
    LET w1 == begin(w, JSONStateArray)
    IN  IF Panicked(w1) THEN w1 ELSE WriteString(w1, <<"[">>)

EndArray(w) ==
    [WriteString(end(w), <<"]">>) EXCEPT !.trailingseparator = TRUE]

WriteKey(w, key) ==
    LET w1 == begin(w, JSONStateKey)
    IN  IF Panicked(w1) THEN w1 ELSE WriteString(w1, escape(key) \o <<":">>)

(***************************************************************************)
(* The values handed to WriteItem / WriteProperty.  An item is named by a  *)
(* string; the operators below give the Go value the name stands for:      *)
(*   nil            nil                                                    *)
(*   int35          35                     (int)                           *)
(*   int8, int12    8, 12                  (int)                           *)
(*   true, false    true, false            (bool)                          *)
(*   strDiether     "Diether"              (string)                        *)
(*   strTest        "Test"                 (string)                        *)
(*   strSubTest     "SubTest"              (string)                        *)
(*   strQuote       "a\"b\n"               (string with characters to      *)
(*                                          escape)                        *)
(*   float          1.5                    (float64)                       *)
(*   emptyslice     []interface{}{}                                        *)
(*   slice          []interface{}{35, nil}                                 *)
(*   map            map[string]int{}                                       *)
(*   chan           make(chan int)                                         *)
(*   complex        complex(1, 2)                                          *)
(*   TestData       &TestData{Name: "Test", Number: 8}                     *)
(*   Umlaut         struct{ Uber int }{8}  (with U+00DC for the U: a field *)
(*                                          name that starts with a rune   *)
(*                                          two bytes long)                *)
(*   nilTestData    a nil pointer to TestData, in an interface value      *)
(*                  that is not nil                                        *)
(*   TestDataSub    &TestData{Name: "Test", Number: 8,                     *)
(*                            Data: &TestData{Name: "SubTest",             *)
(*                                            Number: 12}}                 *)
(***************************************************************************)
\* the item is a pointer that is nil: item == nil is false for it, and
\* reflect.ValueOf(item).Elem() is the zero Value
IsNilPointer(item) == item = "nilTestData"

\* reflect.TypeOf(item).Kind() and the type switch of WriteItem
ItemKind(item) ==
    CASE item = "nil"                                    -> "nil"
      [] item \in {"emptyslice", "slice"}                -> "slice"
      [] item = "map"                                    -> "map"
      [] item = "chan"                                   -> "chan"
      [] item = "complex"                                -> "complex"
      [] item \in {"true", "false"}                      -> "bool"
      [] item \in {"strDiether", "strTest", "strSubTest", "strQuote"}
                                                         -> "string"
      [] item \in {"int35", "int8", "int12"}             -> "int"
      [] item = "float"                                  -> "float"
      [] OTHER                                           -> "struct"

\* the characters of a string item
StringValue(item) ==
    CASE item = "strDiether" -> <<"D","i","e","t","h","e","r">>
      [] item = "strTest"    -> <<"T","e","s","t">>
      [] item = "strSubTest" -> <<"S","u","b","T","e","s","t">>
      [] item = "strQuote"   -> <<"a","\"","b","\n">>
      [] OTHER               -> <<>>

\* fmt.Sprintf("%d", item) and fmt.Sprintf("%f", item)
Sprintf(item) ==
    CASE item = "int35" -> <<"3","5">>
      [] item = "int8"  -> <<"8">>
      [] item = "int12" -> <<"1","2">>
      [] item = "float" -> <<"1",".","5","0","0","0","0","0">>
      [] OTHER          -> <<>>

\* the elements of a slice item, value.Index(i).Interface()
Elements(item) ==
    CASE item = "slice" -> <<"int35", "nil">>
      [] OTHER          -> <<>>

\* the fields of a struct type in declaration order, with the value
\* fieldvalue.Interface() returns; no field of the types has pointer kind;
\* a nil pointer has the fields of its type and no value for any of them
Fields(item) ==
    CASE item = "nilTestData" ->
           << [name |-> <<"N","a","m","e">>,         value |-> "nil", nilptr |-> FALSE],
              [name |-> <<"N","u","m","b","e","r">>, value |-> "nil", nilptr |-> FALSE],
              [name |-> <<"D","a","t","a">>,         value |-> "nil", nilptr |-> FALSE] >>
      [] item = "Umlaut" ->
           << [name |-> <<"U+00DC","b","e","r">>,    value |-> "int8",    nilptr |-> FALSE] >>
      [] item = "TestData" ->
           << [name |-> <<"N","a","m","e">>,         value |-> "strTest", nilptr |-> FALSE],
              [name |-> <<"N","u","m","b","e","r">>, value |-> "int8",    nilptr |-> FALSE],
              [name |-> <<"D","a","t","a">>,         value |-> "nil",     nilptr |-> FALSE] >>
      [] item = "TestDataSub" ->
           << [name |-> <<"N","a","m","e">>,         value |-> "strTest",     nilptr |-> FALSE],
              [name |-> <<"N","u","m","b","e","r">>, value |-> "int8",        nilptr |-> FALSE],
              [name |-> <<"D","a","t","a">>,         value |-> "TestDataSubInner", nilptr |-> FALSE] >>
      [] item = "TestDataSubInner" ->
           << [name |-> <<"N","a","m","e">>,         value |-> "strSubTest", nilptr |-> FALSE],
              [name |-> <<"N","u","m","b","e","r">>, value |-> "int12",      nilptr |-> FALSE],
              [name |-> <<"D","a","t","a">>,         value |-> "nil",        nilptr |-> FALSE] >>
      [] OTHER -> <<>>

(***************************************************************************)
(* toCamelCase                                                             *)
(***************************************************************************)
toCamelCase(data) ==
    IF Len(data) = 0 THEN data
    ELSE LET firstrune == CodePoint(Head(data))
         IN  IF IsLower(firstrune) THEN data
             ELSE <<RuneName(ToLower(firstrune))>> \o DropFirstByte(data)

(***************************************************************************)
(* WriteItem / writeObject / WriteProperty                                 *)
(***************************************************************************)
RECURSIVE WriteItem(_, _)
RECURSIVE writeObject(_, _)
RECURSIVE WriteProperty(_, _, _)
RECURSIVE writeElements(_, _)
RECURSIVE writeFields(_, _)

\* for i := 0; i < value.Len(); i++ { writer.WriteItem(...) }
writeElements(w, elements) ==
    IF Panicked(w) \/ elements = <<>> THEN w
    ELSE writeElements(WriteItem(w, Head(elements)), Tail(elements))

\* for i := 0; i < typeinfo.NumField(); i++ { ... writer.WriteProperty(...) }
writeFields(w, fields) ==
    IF Panicked(w) \/ fields = <<>> THEN w
    ELSE LET field == Head(fields)
         IN  IF field.nilptr
             THEN writeFields(w, Tail(fields))
             ELSE writeFields(WriteProperty(w, toCamelCase(field.name), field.value),
                              Tail(fields))

\* typevalue.Field(i) panics on the zero Value that Elem() of a nil pointer
\* is, in the first round of the loop
writeObject(w, item) ==
    LET w1 == BeginObject(w)
        w2 == IF IsNilPointer(item) /\ Len(Fields(item)) > 0
              THEN Raise(w1, "reflect")
              ELSE writeFields(w1, Fields(item))
    IN  IF Panicked(w1) THEN w1
        ELSE IF Panicked(w2) THEN w2
        ELSE EndObject(w2)

WriteProperty(w, name, value) ==
    IF value = "nil" THEN w
    ELSE LET w1 == WriteKey(w, name)
         IN  IF Panicked(w1) THEN w1 ELSE WriteItem(w1, value)

\* the body of WriteItem between begin(JSONStateNone) and the key check
writeValue(w, item) ==
    LET kind == ItemKind(item)
    IN  CASE kind = "nil" -> WriteString(w, <<"n","u","l","l">>)
          [] kind = "slice" ->
               LET w1 == BeginArray(w)
                   w2 == writeElements(w1, Elements(item))
               IN  IF Panicked(w1) THEN w1
                   ELSE IF Panicked(w2) THEN w2
                   ELSE EndArray(w2)
          [] kind \in {"map", "chan"} -> w
          [] OTHER ->
               LET w1 == CASE kind = "struct"  -> writeObject(w, item)
                           [] kind = "bool"    ->
                                IF item = "true"
                                THEN WriteString(w, <<"t","r","u","e">>)
                                ELSE WriteString(w, <<"f","a","l","s","e">>)
                           [] kind = "string"  -> WriteString(w, escape(StringValue(item)))
                           [] kind \in {"int", "float"} -> WriteString(w, Sprintf(item))
                           [] OTHER            -> w
               IN  IF Panicked(w1) THEN w1
                   ELSE [w1 EXCEPT !.trailingseparator = TRUE]

WriteItem(w, item) ==
    LET w1 == begin(w, JSONStateNone)
        w2 == writeValue(w1, item)
    IN  IF Panicked(w1) THEN w1
        ELSE IF Panicked(w2) THEN w2
        ELSE IF And3(w2.structure) = JSONStateKey THEN end(w2)
        ELSE w2

(***************************************************************************)
(* Close                                                                   *)
(***************************************************************************)
\* Close looping while depth != 0 instead of depth > 0
RECURSIVE Close_WhileNotZero(_)
Close_WhileNotZero(w) ==
    IF Panicked(w) \/ ~(w.depth # 0) THEN w
    ELSE CASE And3(w.structure) = JSONStateObject -> Close_WhileNotZero(EndObject(w))
           [] And3(w.structure) = JSONStateArray  -> Close_WhileNotZero(EndArray(w))
           [] And3(w.structure) = JSONStateKey    -> Close_WhileNotZero(WriteItem(w, "nil"))
           [] OTHER                               -> Raise(w, "invalidstate")

RECURSIVE Close(_)
Close(w) ==
    IF Panicked(w) \/ ~(w.depth > 0) THEN w
    ELSE CASE And3(w.structure) = JSONStateObject -> Close(EndObject(w))
           [] And3(w.structure) = JSONStateArray  -> Close(EndArray(w))
           [] And3(w.structure) = JSONStateKey    -> Close(WriteItem(w, "nil"))
           [] OTHER                               -> Raise(w, "invalidstate")

(***************************************************************************)
(* XMLWriter.  The writer is a record of its two fields and the content of *)
(* its sink; a fragment is the sequence of the pieces fmt.Sprintf joins.   *)
(***************************************************************************)
\* len of the slice make([]string, 8) creates
InitialTags == 8

\* NewXMLWriter(&buffer): make([]string, 8) is a slice of 8 empty strings
NewXMLWriter ==
    [ trailingtag |-> FALSE,
      tags        |-> [i \in 1..InitialTags |-> ""],
      buffer      |-> <<>> ]

checkTrailingTag(x) ==
    IF x.trailingtag
    THEN [x EXCEPT !.buffer = Append(@, <<">">>), !.trailingtag = FALSE]
    ELSE x

BeginTag(x, name) ==
    LET x1 == checkTrailingTag(x)
    IN  [x1 EXCEPT !.buffer = Append(@, <<"<", name>>),
                   !.tags = Append(@, name),
                   !.trailingtag = TRUE]

CloseTag(x) ==
    LET length == Len(x.tags)
    IN  IF length = 0 THEN x
        ELSE LET x1 == IF x.trailingtag
                       THEN [x EXCEPT !.buffer = Append(@, <<"/>">>),
                                      !.trailingtag = FALSE]
                       ELSE [x EXCEPT !.buffer =
                                 Append(@, <<"</", x.tags[length], ">">>)]
             IN  [x1 EXCEPT !.tags = SubSeq(@, 1, length - 1)]

WriteAttribute(x, key, value) ==
    IF ~x.trailingtag THEN x
    ELSE [x EXCEPT !.buffer = Append(@, <<" ", key, "=\"", value, "\"">>)]

WriteContent(x, content) ==
    LET x1 == checkTrailingTag(x)
    IN  [x1 EXCEPT !.buffer = Append(@, <<content>>)]

(***************************************************************************)
(* The state machine: one action per public method of JSONWriter.  A call  *)
(* that panics is recovered by the caller (as assertPanic of the tests     *)
(* does) and the writer stays usable in the state the panic left it in.    *)
(***************************************************************************)
\* keys handed to WriteKey / WriteProperty
Keys == { <<"k","e","y">> }

\* values handed to WriteItem / WriteProperty
Items ==
    { "nil", "int35", "strQuote", "emptyslice", "slice", "map", "complex",
      "TestData", "TestDataSub", "Umlaut", "nilTestData" }

\* the JSONWriter the variables describe
Writer ==
    [ trailingseparator |-> trailingseparator,
      structure         |-> structure,
      depth             |-> depth,
      buffer            |-> buffer,
      panic             |-> NoPanic,
      room              |-> room,
      rejected          |-> FALSE ]

\* what a later state remembers of the writer before the call
Snapshot ==
    [ trailingseparator |-> trailingseparator,
      structure         |-> structure,
      depth             |-> depth,
      buffer            |-> buffer,
      wellformed        |-> wellformed,
      room              |-> room ]

\* the call op(item) returned, or panicked, leaving the writer as w
Return(w, op, item) ==
    /\ calls < limit
    /\ trailingseparator' = w.trailingseparator
    /\ structure' = w.structure
    /\ depth' = w.depth
    /\ buffer' = w.buffer
    /\ panic' = w.panic
    /\ lastOp' = op
    /\ lastItem' = item
    /\ pre' = Snapshot
    /\ limit' = limit
    /\ wellformed' = (wellformed /\ ~Panicked(w))
    /\ calls' = calls + 1
    /\ room' = w.room
    /\ sinkerror' = w.rejected
    /\ UNCHANGED xmlvars

\* the XMLWriter after NewXMLWriter(&buffer)
InitXMLWriter ==
    /\ xml = NewXMLWriter
    /\ xmlOp = "NewXMLWriter"
    /\ xmlOpen = <<>>
    /\ xmlPre = [ trailingtag |-> FALSE, tags |-> NewXMLWriter.tags,
                   buffer |-> <<>>, open |-> <<>> ]

Init ==
    /\ trailingseparator = NewJSONWriter.trailingseparator
    /\ structure = NewJSONWriter.structure
    /\ depth = NewJSONWriter.depth
    /\ buffer = NewJSONWriter.buffer
    /\ panic = NoPanic
    /\ lastOp = "NewJSONWriter"
    /\ lastItem = "-"
    /\ pre = [ trailingseparator |-> FALSE, structure |-> <<>>, depth |-> 0,
                buffer |-> <<>>, wellformed |-> TRUE, room |-> Unlimited ]
    /\ wellformed = TRUE
    /\ calls = 0
    /\ limit = MaxCalls
    /\ room = NewJSONWriter.room
    /\ sinkerror = FALSE
    /\ InitXMLWriter

BeginObjectCall == Return(BeginObject(Writer), "BeginObject", "-")

EndObjectCall == Return(EndObject(Writer), "EndObject", "-")

BeginArrayCall == Return(BeginArray(Writer), "BeginArray", "-")

EndArrayCall == Return(EndArray(Writer), "EndArray", "-")

WriteKeyCall == \E key \in Keys : Return(WriteKey(Writer, key), "WriteKey", "-")

WriteItemCall == \E item \in Items : Return(WriteItem(Writer, item), "WriteItem", item)

WritePropertyCall ==
    \E key \in Keys, item \in Items :
        Return(WriteProperty(Writer, key, item), "WriteProperty", item)

CloseCall == Return(Close(Writer), "Close", "-")

Next ==
    \/ BeginObjectCall
    \/ EndObjectCall
    \/ BeginArrayCall
    \/ EndArrayCall
    \/ WriteKeyCall
    \/ WriteItemCall
    \/ WritePropertyCall
    \/ CloseCall

Spec == Init /\ [][Next]_vars

(***************************************************************************)
(* Writers that start deeply nested: the writer NewJSONWriter() becomes    *)
(* after `arrays` calls of BeginArray followed by alternating BeginObject  *)
(* and WriteKey calls up to `frames` frames.                               *)
(***************************************************************************)
RECURSIVE Nest(_, _, _)
Nest(w, arrays, frames) ==
    IF w.depth >= frames THEN w
    ELSE IF w.depth < arrays THEN Nest(BeginArray(w), arrays, frames)
    ELSE IF And3(w.structure) = JSONStateObject
         THEN Nest(WriteKey(w, <<"k","e","y">>), arrays, frames)
         ELSE Nest(BeginObject(w), arrays, frames)

InitDeep ==
    \E frames \in (MaxDepth - DeepSlack)..MaxDepth :
    \E arrays \in (frames - 2)..frames :
        LET w == Nest(NewJSONWriter, arrays, frames)
        IN  /\ trailingseparator = w.trailingseparator
            /\ structure = w.structure
            /\ depth = w.depth
            /\ buffer = w.buffer
            /\ panic = NoPanic
            /\ lastOp = "Nest"
            /\ lastItem = "-"
            /\ pre = [ trailingseparator |-> w.trailingseparator,
                        structure |-> w.structure, depth |-> w.depth,
                        buffer |-> w.buffer, wellformed |-> TRUE,
                        room |-> w.room ]
            /\ wellformed = TRUE
            /\ calls = 0
            /\ limit = MaxDeepCalls
            /\ room = w.room
            /\ sinkerror = FALSE
            /\ InitXMLWriter

SpecDeep == InitDeep /\ [][Next]_vars

(***************************************************************************)
(* Writers on which more was closed than opened: the writer                *)
(* NewJSONWriter() becomes after `ends` calls of EndArray.                 *)
(***************************************************************************)
RECURSIVE Ended(_, _)
Ended(w, ends) == IF ends = 0 THEN w ELSE Ended(EndArray(w), ends - 1)

InitEnded ==
    \E ends \in 1..MaxEnds :
        LET w == Ended(NewJSONWriter, ends)
        IN  /\ trailingseparator = w.trailingseparator
            /\ structure = w.structure
            /\ depth = w.depth
            /\ buffer = w.buffer
            /\ panic = NoPanic
            /\ lastOp = "Ended"
            /\ lastItem = "-"
            /\ pre = [ trailingseparator |-> w.trailingseparator,
                        structure |-> w.structure, depth |-> w.depth,
                        buffer |-> w.buffer, wellformed |-> TRUE,
                        room |-> w.room ]
            /\ wellformed = TRUE
            /\ calls = 0
            /\ limit = MaxEndedCalls
            /\ room = w.room
            /\ sinkerror = FALSE
            /\ InitXMLWriter

SpecEnded == InitEnded /\ [][Next]_vars

(***************************************************************************)
(* Writers over a sink that fails: NewJSONWriter(sink) with a sink that    *)
(* accepts `room` fragments and returns an error for every later write.    *)
(***************************************************************************)
InitSink ==
    \E accepted \in 0..MaxRoom :
        /\ trailingseparator = NewJSONWriter.trailingseparator
        /\ structure = NewJSONWriter.structure
        /\ depth = NewJSONWriter.depth
        /\ buffer = NewJSONWriter.buffer
        /\ panic = NoPanic
        /\ lastOp = "NewJSONWriter"
        /\ lastItem = "-"
        /\ pre = [ trailingseparator |-> FALSE, structure |-> <<>>, depth |-> 0,
                    buffer |-> <<>>, wellformed |-> TRUE, room |-> accepted ]
        /\ wellformed = TRUE
        /\ calls = 0
        /\ limit = MaxSinkCalls
        /\ room = accepted
        /\ sinkerror = FALSE
        /\ InitXMLWriter

SpecSink == InitSink /\ [][Next]_vars

(***************************************************************************)
(* The XMLWriter state machine: one action per public method.              *)
(***************************************************************************)
\* tag names, attribute and content handed to the XMLWriter
TagNames == { "root", "item" }

\* the call op returned leaving the XMLWriter as x, with the names in open
\* given to BeginTag and not yet closed
ReturnXML(x, op, open) ==
    /\ calls < limit
    /\ xml' = x
    /\ xmlOp' = op
    /\ xmlOpen' = open
    /\ xmlPre' = [ trailingtag |-> xml.trailingtag, tags |-> xml.tags,
                    buffer |-> xml.buffer, open |-> xmlOpen ]
    /\ calls' = calls + 1
    /\ UNCHANGED jsonvars

BeginTagCall ==
    \E name \in TagNames :
        ReturnXML(BeginTag(xml, name), "BeginTag", Append(xmlOpen, name))

CloseTagCall ==
    ReturnXML(CloseTag(xml), "CloseTag",
              IF xmlOpen = <<>> THEN <<>>
              ELSE SubSeq(xmlOpen, 1, Len(xmlOpen) - 1))

WriteAttributeCall ==
    ReturnXML(WriteAttribute(xml, "name", "karl"), "WriteAttribute", xmlOpen)

WriteContentCall ==
    ReturnXML(WriteContent(xml, "Suffer"), "WriteContent", xmlOpen)

NextXML ==
    \/ BeginTagCall
    \/ CloseTagCall
    \/ WriteAttributeCall
    \/ WriteContentCall

InitXML ==
    /\ trailingseparator = NewJSONWriter.trailingseparator
    /\ structure = NewJSONWriter.structure
    /\ depth = NewJSONWriter.depth
    /\ buffer = NewJSONWriter.buffer
    /\ panic = NoPanic
    /\ lastOp = "NewJSONWriter"
    /\ lastItem = "-"
    /\ pre = [ trailingseparator |-> FALSE, structure |-> <<>>, depth |-> 0,
                buffer |-> <<>>, wellformed |-> TRUE, room |-> Unlimited ]
    /\ wellformed = TRUE
    /\ calls = 0
    /\ limit = MaxXMLCalls
    /\ room = NewJSONWriter.room
    /\ sinkerror = FALSE
    /\ InitXMLWriter

SpecXML == InitXML /\ [][NextXML]_vars

(***************************************************************************)
(* JSON syntax (RFC 8259) on the fragments of the sink: a recogniser that  *)
(* reads the fragments in order.  "want" says what may come next.          *)
(***************************************************************************)
FragmentClass(fragment) ==
    CASE fragment = <<"{">> -> "{"
      [] fragment = <<"}">> -> "}"
      [] fragment = <<"[">> -> "["
      [] fragment = <<"]">> -> "]"
      [] fragment = <<",">> -> ","
      [] OTHER ->
           IF  /\ Len(fragment) >= 3
               /\ Head(fragment) = "\""
               /\ fragment[Len(fragment)] = ":"
           THEN "key" ELSE "value"

ScanStart == [open |-> <<>>, want |-> "value"]

ScanError == [open |-> <<>>, want |-> "error"]

ScanPop(st) == [open |-> SubSeq(st.open, 1, Len(st.open) - 1), want |-> "more"]

ScanValue(st, class) ==
    CASE class = "value" -> [st EXCEPT !.want = "more"]
      [] class = "{"     -> [open |-> Append(st.open, "{"), want |-> "firstkey"]
      [] class = "["     -> [open |-> Append(st.open, "["), want |-> "firstvalue"]
      [] OTHER           -> ScanError

ScanStep(st, class) ==
    CASE st.want = "error" -> ScanError
      [] st.want = "value" -> ScanValue(st, class)
      [] st.want = "firstvalue" ->
           IF class = "]" THEN ScanPop(st) ELSE ScanValue(st, class)
      [] st.want = "firstkey" ->
           IF class = "}" THEN ScanPop(st)
           ELSE IF class = "key" THEN [st EXCEPT !.want = "value"]
           ELSE ScanError
      [] st.want = "key" ->
           IF class = "key" THEN [st EXCEPT !.want = "value"] ELSE ScanError
      [] OTHER -> \* "more": a value is complete
           IF st.open = <<>> THEN ScanError
           ELSE IF st.open[Len(st.open)] = "{"
           THEN IF class = "," THEN [st EXCEPT !.want = "key"]
                ELSE IF class = "}" THEN ScanPop(st)
                ELSE ScanError
           ELSE IF class = "," THEN [st EXCEPT !.want = "value"]
                ELSE IF class = "]" THEN ScanPop(st)
                ELSE ScanError

RECURSIVE ScanFrom(_, _)
ScanFrom(st, fragments) ==
    IF fragments = <<>> THEN st
    ELSE ScanFrom(ScanStep(st, FragmentClass(Head(fragments))), Tail(fragments))

Scan(fragments) == ScanFrom(ScanStart, fragments)

\* the text is the beginning of some JSON document
IsJSONPrefix(fragments) == Scan(fragments).want # "error"

\* the text is one complete JSON document
IsJSONDocument(fragments) ==
    LET st == Scan(fragments) IN st.want = "more" /\ st.open = <<>>

(***************************************************************************)
(* Vocabulary of the properties.                                           *)
(***************************************************************************)
\* the last call left every field of the writer and the sink as they were
WriterUntouched ==
    /\ trailingseparator = pre.trailingseparator
    /\ structure = pre.structure
    /\ depth = pre.depth
    /\ buffer = pre.buffer

\* the state the last call found: JSONState(writer.structure & 3)
StateBefore == And3(pre.structure)

\* the fragments the last call appended to the sink
Emitted == SubSeq(buffer, Len(pre.buffer) + 1, Len(buffer))

\* the role the last call asked begin for
RoleOf(op) ==
    CASE op = "BeginObject" -> JSONStateObject
      [] op = "BeginArray"  -> JSONStateArray
      [] op = "WriteKey"    -> JSONStateKey
      [] OTHER              -> JSONStateNone

\* items WriteItem emits as one literal
ScalarKinds == {"nil", "bool", "string", "int", "float"}

\* the last call is one of BeginObject, BeginArray, WriteKey, or WriteItem
\* of a literal
StructuralWrite ==
    \/ lastOp \in {"BeginObject", "BeginArray", "WriteKey"}
    \/ lastOp = "WriteItem" /\ ItemKind(lastItem) \in ScalarKinds

\* a fragment that completes a value
EndsValue(fragment) == FragmentClass(fragment) \in {"value", "}", "]"}

----------------------------------------------------------------------------
(* C1: as long as no call has panicked, the text emitted so far is the     *)
(* beginning of a syntactically valid JSON document.                       *)
C1_PrefixOfValidJSON == wellformed => IsJSONPrefix(buffer)

(* C2: when no call has panicked and Close() has just been invoked, the    *)
(* emitted text is one syntactically valid JSON document.  (The empty text *)
(* of a writer on which nothing was ever written is left aside.)           *)
C2_ClosedTextIsJSONDocument ==
    (wellformed /\ lastOp = "Close" /\ buffer # <<>>) => IsJSONDocument(buffer)

(* C3: comma placement between siblings: an accepted item, container       *)
(* opening or key that follows a completed sibling inside an open          *)
(* container starts its output with exactly one comma.                     *)
C3_OneCommaBetweenSiblings ==
    ( /\ lastOp \in {"WriteItem", "BeginObject", "BeginArray", "WriteKey"}
      /\ panic = NoPanic
      /\ pre.depth > 0
      /\ pre.buffer # <<>>
      /\ EndsValue(pre.buffer[Len(pre.buffer)])
      /\ Emitted # <<>> )
    => /\ Emitted[1] = <<",">>
       /\ Len(Emitted) > 1 => Emitted[2] # <<",">>

(* C4: BeginObject, BeginArray, WriteKey or WriteItem of a literal panics  *)
(* if and only if the table rejects the role in the current state (a key   *)
(* only in Object; object, array and item only in None, Array or Key), or  *)
(* the writer is closed, or the call would push a frame beyond 31 levels.  *)
C4_RejectedIffTableClosedOrDepth ==
    StructuralWrite =>
        ( panic # NoPanic
          <=> \/ IF RoleOf(lastOp) = JSONStateKey
                 THEN StateBefore # JSONStateObject
                 ELSE StateBefore \notin {JSONStateNone, JSONStateArray, JSONStateKey}
              \/ pre.depth = ClosedDepth
              \/ RoleOf(lastOp) # JSONStateNone /\ pre.depth >= MaxDepth )

(* C5: WriteKey outside of an object - nothing opened, directly inside an  *)
(* array, or right after a key whose value is still owed - panics and      *)
(* emits no additional output.                                             *)
C5_KeyOutsideObjectPanics ==
    (lastOp = "WriteKey" /\ StateBefore # JSONStateObject)
    => panic # NoPanic /\ buffer = pre.buffer

\* a key was refused right after another key
C5_Witness ==
    /\ lastOp = "WriteKey"
    /\ StateBefore = JSONStateKey
    /\ pre.depth > 1
    /\ panic = "incompatible"

(* C6: Close() on a writer whose earlier calls were all accepted does not  *)
(* panic and brings the writer to closure, at any depth up to the maximum  *)
(* and whatever the innermost frame is.                                    *)
C6_CloseNeverPanics ==
    (lastOp = "Close" /\ pre.wellformed) => panic = NoPanic /\ depth <= 0

\* what Close is to emit for a stack: null for a dangling key on top, then
\* the closer of every container from the innermost to the outermost
RECURSIVE Closers(_)
Closers(frames) ==
    IF frames = <<>> THEN <<>>
    ELSE LET top  == frames[Len(frames)]
             rest == SubSeq(frames, 1, Len(frames) - 1)
         IN  IF top = JSONStateObject THEN <<(<<"}">>)>> \o Closers(rest)
             ELSE IF top = JSONStateArray THEN <<(<<"]">>)>> \o Closers(rest)
             ELSE Closers(rest)

ExpectedClose(frames) ==
    IF And3(frames) = JSONStateKey
    THEN <<(<<"n","u","l","l">>)>> \o Closers(frames)
    ELSE Closers(frames)

(* C7: Close() from a state with depth > 0 emits null first exactly when   *)
(* the innermost frame is a dangling key, then the closer of every open    *)
(* container innermost first, and leaves the writer closed with no frame.  *)
C7_CloseEmitsClosersInnermostFirst ==
    (lastOp = "Close" /\ pre.depth > 0)
    => /\ panic = NoPanic
       /\ Emitted = ExpectedClose(pre.structure)
       /\ depth = ClosedDepth
       /\ structure = <<>>

(* C8: Close() on a writer that is already closed, or on which nothing was *)
(* opened, emits nothing, changes nothing and does not panic; a Close()    *)
(* that returned leaves the writer in such a state, so a second Close()    *)
(* in succession is of that kind.                                          *)
C8_CloseIdempotent ==
    /\ (lastOp = "Close" /\ pre.depth <= 0) => panic = NoPanic /\ WriterUntouched
    /\ (lastOp = "Close" /\ panic = NoPanic) => depth <= 0

\* Close was called on a writer whose root array or object had been closed
C8_Witness ==
    /\ lastOp = "Close"
    /\ pre.depth = ClosedDepth
    /\ pre.buffer # <<>>
    /\ IsJSONDocument(pre.buffer)
    /\ panic = NoPanic

(* C9: once the root structure has been opened and fully closed, every     *)
(* later BeginObject, BeginArray, WriteKey or WriteItem panics and appends *)
(* nothing, whatever calls were made in between.  (A writer whose first    *)
(* fragment is an opener and whose depth is negative has had its root      *)
(* opened and closed.)                                                     *)
C9_ClosedIsTerminal ==
    ( /\ lastOp \in {"BeginObject", "BeginArray", "WriteKey", "WriteItem"}
      /\ pre.depth < 0
      /\ pre.buffer # <<>>
      /\ FragmentClass(pre.buffer[1]) \in {"{", "["} )
    => panic # NoPanic /\ buffer = pre.buffer

(* C10: EndObject / EndArray when no container is open (fresh or closed    *)
(* writer) panics or does nothing; it emits no closer and leaves the       *)
(* stack, the depth and the pending-separator flag alone.                  *)
C10_EndWithoutOpenContainer ==
    (lastOp \in {"EndObject", "EndArray"} /\ pre.depth <= 0)
    => /\ buffer = pre.buffer
       /\ panic # NoPanic \/ WriterUntouched

(* C11: BeginObject, BeginArray or WriteKey on a writer that already holds *)
(* 31 frames panics and leaves the stack, the depth, the pending-separator *)
(* flag and the output as they were; on an open writer below the bound a   *)
(* push the matrix allows is accepted and adds exactly one frame; depth    *)
(* never exceeds 31.                                                       *)
C11_DepthBound ==
    /\ depth <= MaxDepth
    /\ (lastOp \in {"BeginObject", "BeginArray", "WriteKey"} /\ pre.depth >= MaxDepth)
       => panic # NoPanic /\ WriterUntouched
    /\ ( /\ lastOp \in {"BeginObject", "BeginArray", "WriteKey"}
         /\ pre.depth >= 0
         /\ pre.depth < MaxDepth
         /\ IF lastOp = "WriteKey"
            THEN StateBefore = JSONStateObject
            ELSE StateBefore \in {JSONStateNone, JSONStateArray, JSONStateKey} )
       => /\ panic = NoPanic
          /\ depth = pre.depth + 1
          /\ structure = Append(pre.structure, RoleOf(lastOp))

\* an array was refused on a writer holding 31 frames
C11_Witness ==
    /\ lastOp = "BeginArray"
    /\ pre.depth = MaxDepth
    /\ Len(pre.structure) = MaxDepth
    /\ panic = "depth"

(* C12: key auto-close.  When the value owed to a key is complete - a      *)
(* literal written in state Key, or the container opened after the key     *)
(* closed - the Key frame leaves the stack with it, exactly once, and the  *)
(* state is the enclosing Object; the next WriteKey is then accepted and   *)
(* its output is exactly one comma followed by the key.                    *)
C12_KeyAutoClose ==
    /\ ( /\ lastOp = "WriteItem"
         /\ ItemKind(lastItem) \in ScalarKinds
         /\ StateBefore = JSONStateKey
         /\ pre.depth > 0
         /\ panic = NoPanic )
       => /\ structure = Shr2(pre.structure)
          /\ depth = pre.depth - 1
          /\ And3(structure) = JSONStateObject
    /\ ( /\ lastOp \in {"EndObject", "EndArray"}
         /\ pre.depth > 0
         /\ Len(pre.structure) >= 3
         /\ pre.structure[Len(pre.structure) - 1] = JSONStateKey )
       => /\ structure = Shr2(Shr2(pre.structure))
          /\ depth = pre.depth - 2
          /\ And3(structure) = JSONStateObject
    /\ ( /\ lastOp = "WriteKey"
         /\ StateBefore = JSONStateObject
         /\ pre.depth > 0
         /\ pre.buffer # <<>>
         /\ EndsValue(pre.buffer[Len(pre.buffer)]) )
       => /\ panic = NoPanic
          /\ Len(Emitted) = 2
          /\ Emitted[1] = <<",">>
          /\ FragmentClass(Emitted[2]) = "key"

(* C13: when the sink rejects a write issued by a JSONWriter operation,    *)
(* the operation reports the failure to its caller (the methods return the *)
(* writer itself, so a panic is the only report there is); and a Close()   *)
(* that returns afterwards still leaves no frame open.                     *)
C13_SinkFailurePropagated ==
    /\ sinkerror => panic # NoPanic
    /\ (lastOp = "Close" /\ panic = NoPanic) => depth <= 0

\* the writer the last call was made on
WriterBefore ==
    [ trailingseparator |-> pre.trailingseparator,
      structure         |-> pre.structure,
      depth             |-> pre.depth,
      buffer            |-> pre.buffer,
      panic             |-> NoPanic,
      room              |-> pre.room,
      rejected          |-> FALSE ]

\* the last call left the writer, the sink and its outcome as w has them
LeftAs(w) ==
    /\ trailingseparator = w.trailingseparator
    /\ structure = w.structure
    /\ depth = w.depth
    /\ buffer = w.buffer
    /\ panic = w.panic

\* the values that are null: the nil interface value and a nil pointer
NullItems == { "nil", "nilTestData" }

(* C14: WriteProperty(name, value) with a null value - nil, or a pointer   *)
(* that is nil - emits nothing, panics in no state and leaves stack, depth *)
(* and pending-separator flag unchanged; with any other value it does what *)
(* WriteKey(name) followed by WriteItem(value) does.                       *)
C14_WritePropertySkipsNil ==
    /\ (lastOp = "WriteProperty" /\ lastItem \in NullItems)
       => panic = NoPanic /\ WriterUntouched
    /\ (lastOp = "WriteProperty" /\ lastItem \notin NullItems)
       => \E key \in Keys :
            LET w1 == WriteKey(WriterBefore, key)
            IN  IF Panicked(w1) THEN LeftAs(w1)
                ELSE LeftAs(WriteItem(w1, lastItem))

\* the key text the claim expects for a field name: first letter lower-cased
ExpectedKeyName(name) ==
    CASE name = <<"N","a","m","e">>         -> <<"n","a","m","e">>
      [] name = <<"N","u","m","b","e","r">> -> <<"n","u","m","b","e","r">>
      [] name = <<"D","a","t","a">>         -> <<"d","a","t","a">>
      [] name = <<"U+00DC","b","e","r">>    -> <<"U+00FC","b","e","r">>

RECURSIVE ExpectedObject(_)
RECURSIVE ExpectedPairs(_, _)

\* the fragments of a field value: the field values of TestData are plain
\* strings, ints and structured values
ExpectedValue(item) ==
    CASE ItemKind(item) = "string" -> << <<"\"">> \o StringValue(item) \o <<"\"">> >>
      [] ItemKind(item) = "int"    -> << Sprintf(item) >>
      [] OTHER                     -> ExpectedObject(item)

\* one pair per present field, in field order, comma between pairs
ExpectedPairs(fields, first) ==
    IF fields = <<>> THEN <<>>
    ELSE LET field == Head(fields)
         IN  IF field.nilptr \/ field.value = "nil"
             THEN ExpectedPairs(Tail(fields), first)
             ELSE (IF first THEN <<>> ELSE << <<",">> >>)
                  \o << <<"\"">> \o ExpectedKeyName(field.name) \o <<"\"", ":">> >>
                  \o ExpectedValue(field.value)
                  \o ExpectedPairs(Tail(fields), FALSE)

ExpectedObject(item) ==
    << <<"{">> >> \o ExpectedPairs(Fields(item), TRUE) \o << <<"}">> >>

(* C15: a structured value written as an item is emitted as an object      *)
(* holding, in field order, one key/value pair per present field and none  *)
(* for a nil field, each key being the field name with a lower-case first  *)
(* letter, nested structured fields by the same rule; a pending separator  *)
(* is emitted before it, a separator is pending after it, and a key it is  *)
(* owed to is discharged.                                                  *)
C15_StructuredValueAsObject ==
    (lastOp = "WriteItem" /\ ItemKind(lastItem) = "struct" /\ panic = NoPanic)
    => /\ Emitted = (IF pre.trailingseparator THEN << <<",">> >> ELSE <<>>)
                    \o ExpectedObject(lastItem)
       /\ trailingseparator
       /\ structure = IF StateBefore = JSONStateKey
                      THEN Shr2(pre.structure) ELSE pre.structure

(* C16: depth equals the number of frames in the packed stack, or is the   *)
(* closed value -1 with an empty stack; it takes no other negative value.  *)
C16_DepthCountsFrames ==
    \/ depth = Len(structure)
    \/ depth = ClosedDepth /\ structure = <<>>

(* C18: WriteItem of an unsupported shape (map, channel, complex number)   *)
(* is rejected: it panics, or it leaves output, stack, depth and           *)
(* pending-separator flag exactly as they were.                            *)
C18_UnsupportedShapeRejected ==
    (lastOp = "WriteItem" /\ ItemKind(lastItem) \in {"map", "chan", "complex"})
    => panic # NoPanic \/ WriterUntouched

(* C19: a BeginObject, BeginArray, WriteKey or literal WriteItem call that *)
(* panics has no side effect: stack, depth, pending-separator flag and     *)
(* output are what they were before the call.                              *)
C19_PanicHasNoSideEffect ==
    (StructuralWrite /\ panic # NoPanic) => WriterUntouched

\* a literal was refused by a closed writer that had a separator pending
C19_Witness ==
    /\ lastOp = "WriteItem"
    /\ ItemKind(lastItem) \in ScalarKinds
    /\ panic = "closed"
    /\ pre.trailingseparator
    /\ pre.buffer # <<>>

(* C17: in the frame stack a Key frame is never the bottom frame and sits  *)
(* directly above an Object frame, and the frame directly above an Object  *)
(* frame is a Key frame; a Key frame is on top only from the WriteKey that *)
(* pushed it until the item that discharges it: the last call found it     *)
(* there and left the stack alone, or was the WriteKey that pushed it, or  *)
(* panicked after pushing it with the frames it found still below.         *)
C17_KeyFrameDiscipline ==
    /\ \A i \in 1..Len(structure) :
         /\ structure[i] = JSONStateKey
            => i > 1 /\ structure[i - 1] = JSONStateObject
         /\ (structure[i] = JSONStateObject /\ i < Len(structure))
            => structure[i + 1] = JSONStateKey
    /\ And3(structure) = JSONStateKey
       => \/ structure = pre.structure
          \/ /\ lastOp = "WriteKey"
             /\ structure = Append(pre.structure, JSONStateKey)
          \/ /\ panic # NoPanic
             /\ Len(structure) > Len(pre.structure)
             /\ SubSeq(structure, 1, Len(pre.structure)) = pre.structure

\* the fragments the last XMLWriter call appended to its sink
EmittedXML == SubSeq(xml.buffer, Len(xmlPre.buffer) + 1, Len(xml.buffer))

(* C20: XMLWriter.CloseTag with no tag open (fresh writer, or every tag    *)
(* opened by BeginTag closed again) writes nothing and leaves the tag      *)
(* stack and the trailing-tag flag unchanged; otherwise it closes the most *)
(* recently opened unclosed tag, writing /> if its start tag is still open *)
(* and </name> with that tag's name if not.                                *)
C20_CloseTag ==
    xmlOp = "CloseTag" =>
        IF xmlPre.open = <<>>
        THEN /\ xml.buffer = xmlPre.buffer
             /\ xml.tags = xmlPre.tags
             /\ xml.trailingtag = xmlPre.trailingtag
        ELSE /\ EmittedXML =
                  IF xmlPre.trailingtag THEN << <<"/>">> >>
                  ELSE << <<"</", xmlPre.open[Len(xmlPre.open)], ">">> >>
             /\ xml.trailingtag = FALSE
             /\ xml.tags = SubSeq(xmlPre.tags, 1, Len(xmlPre.tags) - 1)

====
